---- MODULE Spec2Model ----
(***************************************************************************)
(* A model of the mbserver request pipeline: the dispatch tables           *)
(* (Server.function, Server.handlers), the registration calls, the single  *)
(* worker goroutine (Server.handler / Server.handle) and the per-connection*)
(* read loops of Server.accept, which hand requests to the worker over the *)
(* unbuffered channel Server.requestChan.                                  *)
(***************************************************************************)
EXTENDS Integers, Sequences, FiniteSets, TLC

VARIABLES
    function,    \* Server.function: native handler table (server.go:27)
    handlers,    \* Server.handlers: context-aware handler table (server.go:33)
    bank,        \* one cell of Server.HoldingRegisters (server.go:30)
    conn,        \* per connection: the read-loop goroutine of accept and its socket
    worker,      \* per worker goroutine: position in handler()/handle() and its locals
    wrote,       \* per connection: the requests whose response conn.Write was called for
    lastNative,  \* history: per code, the value last stored by RegisterFunctionHandler
    lastCtx,     \* history: per code, the value last stored by RegisterContextFunctionHandler
    lastKind,    \* history: per code, the variant of the latest registration call
    nregs,       \* history: number of registration calls made so far
    listeners,   \* Server.listeners: per endpoint, the listener and its accept loop
    ports,       \* Server.ports: the serial port
    shut,        \* history: Close has been called
    lost         \* history: the connections conn.Write was called on after their Close

vars == <<function, handlers, bank, conn, worker, wrote,
          lastNative, lastCtx, lastKind, nregs, listeners, ports, shut, lost>>

\* The listeners and ports, and the history of Close.
netvars == <<listeners, ports, shut>>

----------------------------------------------------------------------------
(* Bounds of the model.                                                    *)

\* Packets a connection's read loop reads before the peer stops sending.
MaxReqs == 2

\* Registration calls made after construction.
MaxRegs == 1

\* The connections the listeners accept.
Conns == {"c1", "c2"}

\* The function codes the model distinguishes (3: a default handler exists,
\* 99: none does).
Codes == {3, 99}

----------------------------------------------------------------------------
(* Values.                                                                 *)

\* A nil func value or a nil *Exception.
Nil == "nil"

\* Native handlers a caller can register ("ReadHoldingRegisters" is the default one).
NativeHandlers == {"h1"}

\* Context-aware handlers a caller can register.
ContextHandlers == {"g1"}

\* The worker goroutines started by a constructor: exactly one `go s.handler()`.
TwoWorkers == {"w1", "w2"}
Workers == {"w1"}

\* The *Exception values a handler can return: the package-level variables
\* (&Success, &IllegalFunction, &IllegalDataAddress), a pointer to a copy of
\* Success (equal value, other identity), and nil.
ExceptionPtrs == {"Success", "SuccessCopy", "IllegalFunction", "IllegalDataAddress", Nil}

\* The numeric wire code of the exception a pointer points to.
ExcCode(e) ==
    CASE e = "Success" -> 0
      [] e = "SuccessCopy" -> 0
      [] e = "IllegalFunction" -> 1
      [] e = "IllegalDataAddress" -> 2
      [] OTHER -> 255

\* The byte sequences conn.Read can deliver: two well-formed frames and three
\* malformed ones (declared length wrong, protocol id not 0, shorter than the
\* envelope).
Packets ==
    { <<0, 1, 0, 0, 0, 3, 1, 3, 7>>,
      <<0, 2, 0, 0, 0, 3, 1, 99, 7>>,
      <<0, 3, 0, 0, 0, 9, 1, 3, 7>>,
      <<0, 4, 0, 1, 0, 3, 1, 3, 7>>,
      <<0, 5, 0>> }

\* The endpoints the server is told to listen on: one plaintext (ListenTCP),
\* one mutually authenticated (ListenTLS).
Listeners == {"tcp", "tls"}

\* The peer certificate chains of a handshake, leaf first. A certificate is
\* its subject common name and its extensions (id, value); "role" stands for
\* the object identifier 1.3.6.1.4.1.50316.802.1.
Chains ==
    { << [cn |-> "alice", exts |-> << [id |-> "other", value |-> "x"] >>] >>,
      << [cn |-> "alice", exts |-> << [id |-> "role", value |-> "operator"] >>] >>,
      << [cn |-> "alice", exts |-> << [id |-> "role", value |-> "operator"] >>],
         [cn |-> "ca", exts |-> << [id |-> "role", value |-> "admin"] >>] >>,
      << [cn |-> "alice", exts |-> << [id |-> "other", value |-> "x"] >>],
         [cn |-> "ca", exts |-> << [id |-> "role", value |-> "admin"] >>] >> }

\* The host part of conn.RemoteAddr() of a connection.
Addr(c) == IF c = "c1" THEN "10.0.0.1" ELSE "10.0.0.2"

\* A context with none of the three values set.
NoCtx == [xff |-> Nil, user |-> Nil, role |-> Nil]

NoFrame == [tid |-> 0, unit |-> 0, function |-> 0, data |-> <<>>]
NoReq == [conn |-> "none", seq |-> 0, frame |-> NoFrame, ctx |-> NoCtx]
NoCall == [kind |-> "none", h |-> Nil]

----------------------------------------------------------------------------
(* The frame codec, as far as the pipeline uses it.                        *)

\* NewTCPFrame's error: buffer shorter than the envelope, protocol id not 0,
\* or declared length different from the bytes that follow the length field.
DecodeOK(p) ==
    /\ Len(p) >= 8
    /\ p[3] * 256 + p[4] = 0
    /\ p[5] * 256 + p[6] = Len(p) - 6

\* NewTCPFrame's result on a well-formed buffer.
NewTCPFrame(p) ==
    [tid |-> p[1] * 256 + p[2], unit |-> p[7], function |-> p[8],
     data |-> SubSeq(p, 9, Len(p))]

\* Framer.Copy: the response starts as a copy of the request frame.
Copy(f) == f

\* Framer.GetFunction.
GetFunction(f) == f.function

\* Framer.SetData.
SetData(f, d) == [f EXCEPT !.data = d]

\* x | 0x80 on a byte.
Or80(x) == IF x >= 128 THEN x ELSE x + 128

\* Framer.SetException on a non-nil pointer: function code | 0x80, payload the
\* one byte of the exception's code.
SetException(f, e) == [f EXCEPT !.function = Or80(f.function), !.data = <<ExcCode(e)>>]

----------------------------------------------------------------------------
(* Construction.                                                           *)

IdleWorker ==
    [pc |-> "recv", req |-> NoReq, response |-> NoFrame, exception |-> "unset",
     data |-> <<>>, entry |-> Nil, invoked |-> NoCall, seen |-> 0, bank0 |-> 0,
     raced |-> FALSE, fault |-> "none", arg |-> NoCtx]

NewConn ==
    [pc |-> "idle", open |-> FALSE, frame |-> NoFrame,
     nread |-> 0, nsub |-> 0, rejected |-> 0,
     listener |-> "none", hs |-> "none", chain |-> <<>>, user |-> "", role |-> Nil]

\* NewServer: both tables empty.
EmptyTable == [c \in Codes |-> Nil]

\* NewServerWithDefaults: s.function[3] = ReadHoldingRegisters (of the codes modelled).
DefaultTable == [c \in Codes |-> IF c = 3 THEN "ReadHoldingRegisters" ELSE Nil]

Init ==
    /\ function \in {EmptyTable, DefaultTable}
    /\ handlers = EmptyTable
    /\ bank = 0
    /\ conn = [c \in Conns |-> NewConn]
    /\ worker = [w \in Workers |-> IdleWorker]
    /\ wrote = [c \in Conns |-> <<>>]
    /\ lastNative = function
    /\ lastCtx = handlers
    /\ lastKind = [c \in Codes |-> IF function[c] # Nil THEN "native" ELSE "none"]
    /\ nregs = 0
    /\ listeners = [l \in Listeners |-> "none"]
    /\ ports = "none"
    /\ shut = FALSE
    /\ lost = {}

\* A worker goroutine that panicked: on a call of a nil func value ("nilcall"),
\* inside the handler it called ("handler"), or on the dereference of a nil
\* *Exception the handler returned ("nilexception"). handler() has no recover,
\* so the goroutine's locals are gone.
Panicked(cause) == [IdleWorker EXCEPT !.pc = "panicked", !.fault = cause]

\* An unrecovered panic in any goroutine ends the process: nothing runs after it.
Alive == \A w \in Workers : worker[w].pc # "panicked"

----------------------------------------------------------------------------
(* Registration (server.go:80-88). Neither call takes a lock.              *)

\* The workers whose current request has function code `code` are marked as
\* having had a registration for that code since they dequeued it (history).
MarkRaced(code) ==
    [w \in Workers |->
        IF worker[w].pc # "recv" /\ GetFunction(worker[w].req.frame) = code
        THEN [worker[w] EXCEPT !.raced = TRUE]
        ELSE worker[w]]

\* A registration that keeps an entry that is already set.
RegisterFunctionHandlerKeep(code, handler) ==
    /\ Alive
    /\ nregs < MaxRegs
    /\ function' = IF function[code] = Nil
                   THEN [function EXCEPT ![code] = handler]
                   ELSE function
    /\ lastNative' = [lastNative EXCEPT ![code] = handler]
    /\ lastKind' = [lastKind EXCEPT ![code] = "native"]
    /\ nregs' = nregs + 1
    /\ worker' = MarkRaced(code)
    /\ UNCHANGED <<handlers, bank, conn, wrote, lastCtx>>
    /\ UNCHANGED <<netvars, lost>>

\* s.function[code] = handler
RegisterFunctionHandler(code, handler) ==
    /\ Alive
    /\ nregs < MaxRegs
    /\ function' = [function EXCEPT ![code] = handler]
    /\ lastNative' = [lastNative EXCEPT ![code] = handler]
    /\ lastKind' = [lastKind EXCEPT ![code] = "native"]
    /\ nregs' = nregs + 1
    /\ worker' = MarkRaced(code)
    /\ UNCHANGED <<handlers, bank, conn, wrote, lastCtx>>
    /\ UNCHANGED <<netvars, lost>>

\* s.handlers[code] = handler
RegisterContextFunctionHandler(code, handler) ==
    /\ Alive
    /\ nregs < MaxRegs
    /\ handlers' = [handlers EXCEPT ![code] = handler]
    /\ lastCtx' = [lastCtx EXCEPT ![code] = handler]
    /\ lastKind' = [lastKind EXCEPT ![code] = "ctx"]
    /\ nregs' = nregs + 1
    /\ worker' = MarkRaced(code)
    /\ UNCHANGED <<function, bank, conn, wrote, lastNative>>
    /\ UNCHANGED <<netvars, lost>>

----------------------------------------------------------------------------
(* The per-connection goroutine of accept (servetcp.go:29-97).             *)

\* ListenTCP / ListenTLS: the listener is appended to s.listeners and its
\* accept loop starts, blocked in listen.Accept.
Listen(l) ==
    /\ Alive
    /\ listeners[l] = "none"
    /\ listeners' = [listeners EXCEPT ![l] = "accepting"]
    /\ UNCHANGED <<function, handlers, bank, conn, worker, wrote,
                   lastNative, lastCtx, lastKind, nregs, ports, shut, lost>>

\* The serial listener: the port is opened and appended to s.ports.
ListenRTU ==
    /\ Alive
    /\ ports = "none"
    /\ ports' = "open"
    /\ UNCHANGED <<function, handlers, bank, conn, worker, wrote,
                   lastNative, lastCtx, lastKind, nregs, listeners, shut, lost>>

\* A Close that also closes the connections the listeners accepted.
CloseAll ==
    /\ Alive
    /\ listeners' = [l \in Listeners |->
                        IF listeners[l] = "accepting" THEN "closed" ELSE listeners[l]]
    /\ ports' = IF ports = "open" THEN "closed" ELSE ports
    /\ shut' = TRUE
    /\ conn' = [c \in Conns |->
                   IF conn[c].open THEN [conn[c] EXCEPT !.open = FALSE] ELSE conn[c]]
    /\ UNCHANGED <<function, handlers, bank, worker, wrote,
                   lastNative, lastCtx, lastKind, nregs, lost>>

\* Close: listen.Close() on every listener of s.listeners and port.Close() on
\* every port of s.ports. A listener's accept loop is still inside Accept.
Close ==
    /\ Alive
    /\ listeners' = [l \in Listeners |->
                        IF listeners[l] = "accepting" THEN "closed" ELSE listeners[l]]
    /\ ports' = IF ports = "open" THEN "closed" ELSE ports
    /\ shut' = TRUE
    /\ UNCHANGED <<function, handlers, bank, conn, worker, wrote,
                   lastNative, lastCtx, lastKind, nregs, lost>>

\* listen.Accept on a closed listener returns "use of closed network
\* connection": the accept loop returns nil.
AcceptReturn(l) ==
    /\ Alive
    /\ listeners[l] = "closed"
    /\ listeners' = [listeners EXCEPT ![l] = "returned"]
    /\ UNCHANGED <<function, handlers, bank, conn, worker, wrote,
                   lastNative, lastCtx, lastKind, nregs, ports, shut, lost>>

\* listen.Accept of listener l returns connection c and its goroutine starts.
\* A connection of the TLS listener is a *tls.Conn (chain: the certificates
\* its peer will present) and goes to the handshake; any other reaches the
\* top of the read loop.
Accept(c, l, chain) ==
    /\ Alive
    /\ listeners[l] = "accepting"
    /\ conn[c].pc = "idle"
    /\ conn' = [conn EXCEPT ![c] =
                  IF l = "tls"
                  THEN [conn[c] EXCEPT !.pc = "handshake", !.open = TRUE,
                                       !.listener = l, !.hs = "pending",
                                       !.chain = chain]
                  ELSE [conn[c] EXCEPT !.pc = "read", !.open = TRUE,
                                       !.listener = l]]
    /\ UNCHANGED <<function, handlers, bank, worker, wrote,
                   lastNative, lastCtx, lastKind, nregs>>
    /\ UNCHANGED <<netvars, lost>>

\* The inner loop over cert.Extensions from index j on, acc being (user, role)
\* so far: every extension with the role id overwrites both.
RECURSIVE ScanExtensions(_, _, _)
ScanExtensions(cert, j, acc) ==
    IF j > Len(cert.exts) THEN acc
    ELSE ScanExtensions(cert, j + 1,
            IF cert.exts[j].id = "role"
            THEN [user |-> cert.cn, role |-> cert.exts[j].value]
            ELSE acc)

\* The outer loop over PeerCertificates from index i on.
RECURSIVE ScanCertificates(_, _, _)
ScanCertificates(certs, i, acc) ==
    IF i > Len(certs) THEN acc
    ELSE ScanCertificates(certs, i + 1, ScanExtensions(certs[i], 1, acc))

\* A failed handshake that is logged and then falls into the read loop.
HandshakeFailContinue(c) ==
    /\ Alive
    /\ conn[c].pc = "handshake"
    /\ conn' = [conn EXCEPT ![c].pc = "read", ![c].hs = "failed", ![c].chain = <<>>]
    /\ UNCHANGED <<function, handlers, bank, worker, wrote,
                   lastNative, lastCtx, lastKind, nregs>>
    /\ UNCHANGED <<netvars, lost>>

\* tlsConn.Handshake() returns an error: the goroutine returns and its
\* deferred conn.Close runs; the handshake produced no peer certificates.
HandshakeFail(c) ==
    /\ Alive
    /\ conn[c].pc = "handshake"
    /\ conn' = [conn EXCEPT ![c].pc = "closed", ![c].open = FALSE,
                            ![c].hs = "failed", ![c].chain = <<>>]
    /\ UNCHANGED <<function, handlers, bank, worker, wrote,
                   lastNative, lastCtx, lastKind, nregs>>
    /\ UNCHANGED <<netvars, lost>>

\* tlsConn.Handshake() succeeds: user and role are taken from the peer
\* certificates (var user string; role []byte start as "" and nil), and the
\* goroutine reaches the top of the read loop.
Handshake(c) ==
    /\ Alive
    /\ conn[c].pc = "handshake"
    /\ LET found == ScanCertificates(conn[c].chain, 1, [user |-> "", role |-> Nil]) IN
       conn' = [conn EXCEPT ![c].pc = "read", ![c].hs = "ok",
                            ![c].user = found.user, ![c].role = found.role]
    /\ UNCHANGED <<function, handlers, bank, worker, wrote,
                   lastNative, lastCtx, lastKind, nregs>>
    /\ UNCHANGED <<netvars, lost>>

\* The context of a request of connection c: X-Forwarded-For always, and
\* Modbus-User and Modbus-Role only if role != nil. The goroutine's user and
\* role are not assigned after the handshake, so the context it builds before
\* the send is the one built from their values at the send.
RequestContext(c) ==
    [xff |-> Addr(c),
     user |-> IF conn[c].role # Nil THEN conn[c].user ELSE Nil,
     role |-> IF conn[c].role # Nil THEN conn[c].role ELSE Nil]

\* A read error that is returned out of the accept loop of the connection's
\* listener, which stops accepting.
ReadErrorStopsAccept(c) ==
    /\ Alive
    /\ conn[c].pc = "read"
    /\ conn' = [conn EXCEPT ![c].pc = "closed", ![c].open = FALSE]
    /\ listeners' = [listeners EXCEPT ![conn[c].listener] = "returned"]
    /\ UNCHANGED <<function, handlers, bank, worker, wrote,
                   lastNative, lastCtx, lastKind, nregs, ports, shut, lost>>

\* conn.Read returns an error (io.EOF included): the goroutine returns and
\* its deferred conn.Close runs.
ReadError(c) ==
    /\ Alive
    /\ conn[c].pc = "read"
    /\ conn' = [conn EXCEPT ![c].pc = "closed", ![c].open = FALSE]
    /\ UNCHANGED <<function, handlers, bank, worker, wrote,
                   lastNative, lastCtx, lastKind, nregs>>
    /\ UNCHANGED <<netvars, lost>>

\* A read loop that logs the decode error and goes on to submit the frame.
ReadNoReturn(c, p) ==
    /\ Alive
    /\ conn[c].pc = "read"
    /\ conn[c].nread < MaxReqs
    /\ conn' = [conn EXCEPT
                  ![c].pc = "send",
                  ![c].nread = conn[c].nread + 1,
                  ![c].frame = IF DecodeOK(p) THEN NewTCPFrame(p) ELSE NoFrame,
                  ![c].rejected = IF DecodeOK(p) THEN 0 ELSE conn[c].nread + 1]
    /\ UNCHANGED <<function, handlers, bank, worker, wrote,
                   lastNative, lastCtx, lastKind, nregs>>
    /\ UNCHANGED <<netvars, lost>>

\* A read loop that hands its request to another goroutine to submit and
\* reads on.
ReadAhead(c, p) ==
    /\ Alive
    /\ conn[c].pc \in {"read", "send"}
    /\ conn[c].nread < MaxReqs
    /\ conn' = IF DecodeOK(p)
               THEN [conn EXCEPT ![c].pc = "send",
                                 ![c].nread = conn[c].nread + 1,
                                 ![c].frame = NewTCPFrame(p)]
               ELSE [conn EXCEPT ![c].pc = "closed", ![c].open = FALSE,
                                 ![c].nread = conn[c].nread + 1,
                                 ![c].rejected = conn[c].nread + 1]
    /\ UNCHANGED <<function, handlers, bank, worker, wrote,
                   lastNative, lastCtx, lastKind, nregs>>
    /\ UNCHANGED <<netvars, lost>>

\* conn.Read returns n bytes and no error; packet = packet[:n];
\* frame, err := NewTCPFrame(packet). On a decode error the goroutine returns
\* (its deferred conn.Close runs); otherwise it builds the request and reaches
\* the channel send.
Read(c, p) ==
    /\ Alive
    /\ conn[c].pc = "read"
    /\ conn[c].nread < MaxReqs
    /\ conn' = IF DecodeOK(p)
               THEN [conn EXCEPT ![c].pc = "send",
                                 ![c].nread = conn[c].nread + 1,
                                 ![c].frame = NewTCPFrame(p)]
               ELSE [conn EXCEPT ![c].pc = "closed", ![c].open = FALSE,
                                 ![c].nread = conn[c].nread + 1,
                                 ![c].rejected = conn[c].nread + 1]
    /\ UNCHANGED <<function, handlers, bank, worker, wrote,
                   lastNative, lastCtx, lastKind, nregs>>
    /\ UNCHANGED <<netvars, lost>>

----------------------------------------------------------------------------
(* The worker goroutine: handler() (server.go:115-121) and handle()        *)
(* (server.go:90-112).                                                     *)

\* A worker that takes the next request while its response is still unwritten.
CanReceiveEarly(w) == worker[w].pc \in {"recv", "write"}

\* The worker is at `request := <-s.requestChan`, the top of its loop.
CanReceive(w) == worker[w].pc = "recv"

\* The send `s.requestChan <- request` of connection c meets the receive of
\* worker w: the channel is unbuffered, so the send completes exactly when the
\* worker takes the request. The read loop goes back to the top of its loop;
\* the worker enters handle.
Submit(c, w) ==
    /\ Alive
    /\ conn[c].pc = "send"
    /\ CanReceive(w)
    /\ conn' = [conn EXCEPT ![c].pc = "read", ![c].frame = NoFrame,
                            ![c].nsub = conn[c].nsub + 1]
    /\ worker' = [worker EXCEPT ![w] =
                    [IdleWorker EXCEPT
                        !.pc = "handle",
                        !.req = [conn |-> c, seq |-> conn[c].nread,
                                 frame |-> conn[c].frame,
                                 ctx |-> RequestContext(c)],
                        !.bank0 = bank]]
    /\ UNCHANGED <<function, handlers, bank, wrote,
                   lastNative, lastCtx, lastKind, nregs>>
    /\ UNCHANGED <<netvars, lost>>

\* A dispatch that looks at the context-aware table first.
CheckNativeContextFirst(w) ==
    /\ Alive
    /\ worker[w].pc = "handle"
    /\ LET f == GetFunction(worker[w].req.frame) IN
       worker' = [worker EXCEPT
                    ![w].response = Copy(worker[w].req.frame),
                    ![w].entry = IF handlers[f] # Nil THEN handlers[f] ELSE function[f],
                    ![w].pc = IF handlers[f] # Nil THEN "callCtx"
                              ELSE IF function[f] # Nil THEN "callNative"
                              ELSE "checkCtx"]
    /\ UNCHANGED <<function, handlers, bank, conn, wrote,
                   lastNative, lastCtx, lastKind, nregs>>
    /\ UNCHANGED <<netvars, lost>>

\* response := request.frame.Copy(); function := request.frame.GetFunction();
\* if s.function[function] != nil
CheckNative(w) ==
    /\ Alive
    /\ worker[w].pc = "handle"
    /\ LET f == GetFunction(worker[w].req.frame) IN
       worker' = [worker EXCEPT
                    ![w].response = Copy(worker[w].req.frame),
                    ![w].entry = function[f],
                    ![w].pc = IF function[f] # Nil THEN "callNative" ELSE "checkCtx"]
    /\ UNCHANGED <<function, handlers, bank, conn, wrote,
                   lastNative, lastCtx, lastKind, nregs>>
    /\ UNCHANGED <<netvars, lost>>

\* The worker calls callee as a handler of the given kind: a nil func value
\* panics, anything else starts running and reads the bank.
CallStep(w, kind, callee) ==
    worker' = [worker EXCEPT ![w] =
                 IF callee = Nil
                 THEN Panicked("nilcall")
                 ELSE [worker[w] EXCEPT !.pc = "run",
                                        !.invoked = [kind |-> kind, h |-> callee],
                                        !.arg = IF kind = "ctx"
                                                THEN worker[w].req.ctx ELSE NoCtx,
                                        !.seen = bank]]

\* data, exception = s.function[function](s, request.frame): the table entry
\* is read a second time, unsynchronized with the registration calls, so the
\* callee is the entry seen by the check (the build reuses the load) or the
\* entry as it is now (the build loads again).
CallNative(w) ==
    /\ Alive
    /\ worker[w].pc = "callNative"
    /\ \E callee \in {worker[w].entry, function[GetFunction(worker[w].req.frame)]} :
          CallStep(w, "native", callee)
    /\ UNCHANGED <<function, handlers, bank, conn, wrote,
                   lastNative, lastCtx, lastKind, nregs>>
    /\ UNCHANGED <<netvars, lost>>

\* The exception handle takes when no table has a handler.
NoHandlerSuccess == "Success"

\* exception = &IllegalFunction
NoHandlerException == "IllegalFunction"

\* A comparison of the exception's value with Success's value.
IsSuccessByValue(e) == e # Nil /\ ExcCode(e) = 0

\* exception == &Success: a comparison of pointers.
IsSuccess(e) == e = "Success"

\* The end of handle, on the worker's locals wk with data d and exception e:
\* if exception != &Success { response.SetException(exception) }; return
\* response. SetException dereferences the pointer, so nil panics.
Finish(wk, d, e) ==
    IF IsSuccess(e)
    THEN [wk EXCEPT !.data = d, !.exception = e, !.pc = "write"]
    ELSE IF e = Nil
    THEN Panicked("nilexception")
    ELSE [wk EXCEPT !.data = d, !.exception = e,
                    !.response = SetException(wk.response, e), !.pc = "write"]

\* else if s.handlers[function] != nil ... else exception = &IllegalFunction
CheckContext(w) ==
    /\ Alive
    /\ worker[w].pc = "checkCtx"
    /\ LET f == GetFunction(worker[w].req.frame) IN
       worker' = [worker EXCEPT ![w] =
                    IF handlers[f] # Nil
                    THEN [worker[w] EXCEPT !.entry = handlers[f], !.pc = "callCtx"]
                    ELSE Finish([worker[w] EXCEPT !.entry = Nil], <<>>,
                                NoHandlerException)]
    /\ UNCHANGED <<function, handlers, bank, conn, wrote,
                   lastNative, lastCtx, lastKind, nregs>>
    /\ UNCHANGED <<netvars, lost>>

\* data, exception = s.handlers[function](request.ctx, request.frame): as for
\* the native call, the entry is read again without synchronization.
CallContext(w) ==
    /\ Alive
    /\ worker[w].pc = "callCtx"
    /\ \E callee \in {worker[w].entry, handlers[GetFunction(worker[w].req.frame)]} :
          CallStep(w, "ctx", callee)
    /\ UNCHANGED <<function, handlers, bank, conn, wrote,
                   lastNative, lastCtx, lastKind, nregs>>
    /\ UNCHANGED <<netvars, lost>>

\* The value a writing handler stores: the first payload byte of the request.
WriteValue(f) == IF Len(f.data) > 0 THEN f.data[1] ELSE 0

\* The running handler writes the register bank.
HandlerWrite(w) ==
    /\ Alive
    /\ worker[w].pc = "run"
    /\ bank # WriteValue(worker[w].req.frame)
    /\ bank' = WriteValue(worker[w].req.frame)
    /\ worker' = [worker EXCEPT ![w].seen = bank']
    /\ UNCHANGED <<function, handlers, conn, wrote,
                   lastNative, lastCtx, lastKind, nregs>>
    /\ UNCHANGED <<netvars, lost>>

\* What a handler can return: (data, exception).
Returns ==
    { <<(<<10, 20>>), "Success">>,
      <<(<<>>), "Success">>,
      <<(<<10, 20>>), "IllegalDataAddress">>,
      <<(<<10, 20>>), "SuccessCopy">>,
      <<(<<>>), Nil>> }

\* The running handler returns (data, exception); handle calls
\* response.SetData(data) and goes on to its end.
HandlerReturn(w, d, e) ==
    /\ Alive
    /\ worker[w].pc = "run"
    /\ worker' = [worker EXCEPT ![w] =
                    Finish([worker[w] EXCEPT !.response = SetData(worker[w].response, d)],
                           d, e)]
    /\ UNCHANGED <<function, handlers, bank, conn, wrote,
                   lastNative, lastCtx, lastKind, nregs>>
    /\ UNCHANGED <<netvars, lost>>

\* The running handler panics. handler() has no recover.
HandlerPanic(w) ==
    /\ Alive
    /\ worker[w].pc = "run"
    /\ worker' = [worker EXCEPT ![w] = Panicked("handler")]
    /\ UNCHANGED <<function, handlers, bank, conn, wrote,
                   lastNative, lastCtx, lastKind, nregs>>
    /\ UNCHANGED <<netvars, lost>>

\* request.conn.Write(response.Bytes()); the worker loops. On a connection
\* its read loop has closed the Write returns an error, which is dropped.
Write(w) ==
    /\ Alive
    /\ worker[w].pc = "write"
    /\ wrote' = [wrote EXCEPT ![worker[w].req.conn] =
                    Append(wrote[worker[w].req.conn], worker[w].req.seq)]
    /\ lost' = IF conn[worker[w].req.conn].open
               THEN lost ELSE lost \cup {worker[w].req.conn}
    /\ worker' = [worker EXCEPT ![w] = IdleWorker]
    /\ UNCHANGED <<function, handlers, bank, conn,
                   lastNative, lastCtx, lastKind, nregs>>
    /\ UNCHANGED netvars

----------------------------------------------------------------------------
Next ==
    \/ \E code \in Codes, h \in NativeHandlers \cup {Nil} :
          RegisterFunctionHandler(code, h)
    \/ \E code \in Codes, h \in ContextHandlers \cup {Nil} :
          RegisterContextFunctionHandler(code, h)
    \/ Listen("tcp")
    \/ \E c \in Conns : Accept(c, "tcp", <<>>)
    \/ \E c \in Conns, p \in Packets : Read(c, p)
    \/ \E c \in Conns : ReadError(c)
    \/ \E c \in Conns, w \in Workers : Submit(c, w)
    \/ \E w \in Workers : CheckNative(w)
    \/ \E w \in Workers : CallNative(w)
    \/ \E w \in Workers : CheckContext(w)
    \/ \E w \in Workers : CallContext(w)
    \/ \E w \in Workers : HandlerWrite(w)
    \/ \E w \in Workers, r \in Returns : HandlerReturn(w, r[1], r[2])
    \/ \E w \in Workers : HandlerPanic(w)
    \/ \E w \in Workers : Write(w)

\* The pipeline under every registration and every handler behaviour, with
\* plaintext connections and no shutdown.
Spec == Init /\ [][Next]_vars

\* What the handlers return in the specifications of the transports.
ConnReturns ==
    { <<(<<10, 20>>), "Success">>,
      <<(<<10, 20>>), "IllegalDataAddress">> }

\* The chain the TLS peer presents in the specification of the shutdown.
ShutChain == << [cn |-> "alice", exts |-> << [id |-> "role", value |-> "operator"] >>] >>

NextTLS ==
    \/ RegisterContextFunctionHandler(99, "g1")
    \/ \E l \in Listeners : Listen(l)
    \/ Accept("c1", "tcp", <<>>)
    \/ \E chain \in Chains : Accept("c2", "tls", chain)
    \/ \E c \in Conns : Handshake(c)
    \/ \E c \in Conns : HandshakeFail(c)
    \/ \E c \in Conns, p \in Packets : Read(c, p)
    \/ \E c \in Conns : ReadError(c)
    \/ \E c \in Conns, w \in Workers : Submit(c, w)
    \/ \E w \in Workers : CheckNative(w)
    \/ \E w \in Workers : CallNative(w)
    \/ \E w \in Workers : CheckContext(w)
    \/ \E w \in Workers : CallContext(w)
    \/ \E w \in Workers, r \in ConnReturns : HandlerReturn(w, r[1], r[2])
    \/ \E w \in Workers : Write(w)

\* The secured transport: one plaintext and one TLS connection, every peer
\* chain, handlers that return, and a context-aware handler that may be
\* registered for code 99; no shutdown.
SpecTLS == Init /\ [][NextTLS]_vars

NextShut ==
    \/ \E l \in Listeners : Listen(l)
    \/ ListenRTU
    \/ Close
    \/ \E l \in Listeners : AcceptReturn(l)
    \/ Accept("c1", "tcp", <<>>)
    \/ Accept("c2", "tls", ShutChain)
    \/ \E c \in Conns : Handshake(c)
    \/ \E c \in Conns : HandshakeFail(c)
    \/ \E c \in Conns, p \in Packets : Read(c, p)
    \/ \E c \in Conns : ReadError(c)
    \/ \E c \in Conns, w \in Workers : Submit(c, w)
    \/ \E w \in Workers : CheckNative(w)
    \/ \E w \in Workers : CallNative(w)
    \/ \E w \in Workers : CheckContext(w)
    \/ \E w \in Workers, r \in ConnReturns : HandlerReturn(w, r[1], r[2])
    \/ \E w \in Workers : Write(w)

\* The lifecycle: both listeners, the serial port and Close, with one
\* plaintext and one TLS connection, handlers that return and no registration.
SpecShut == Init /\ [][NextShut]_vars

----------------------------------------------------------------------------
(* Properties.                                                             *)

\* The worker has dequeued a request and has not yet written its response.
Busy(w) == worker[w].pc \notin {"recv", "panicked"}

\* The worker is inside handle (between its entry and its return).
InHandle(w) == worker[w].pc \in {"handle", "callNative", "checkCtx", "callCtx", "run"}

\* The function code of the request the worker holds.
ReqFunction(w) == GetFunction(worker[w].req.frame)

\* C1 (mutual exclusion): at most one invocation of handle is in progress at
\* any instant, and while a handler runs the bank holds what that handler last
\* read or wrote: no other handler's access falls between its accesses.
C1_MutualExclusion ==
    /\ Cardinality({w \in Workers : InHandle(w)}) <= 1
    /\ \A w \in Workers : worker[w].pc = "run" => bank = worker[w].seen

\* A handler has written the bank and is still running while another
\* connection is blocked on its submission.
C1_Witness ==
    \E w \in Workers, c \in Conns :
        /\ worker[w].pc = "run"
        /\ bank # worker[w].bank0
        /\ c # worker[w].req.conn
        /\ conn[c].pc = "send"

\* C2 (per-connection ordering): on every connection the responses are
\* written in the order the requests were read, and when the worker has
\* dequeued the n-th request of a connection the responses of its first n-1
\* requests have all been written.
C2_PerConnectionOrder ==
    /\ \A c \in Conns : \A i \in 1..Len(wrote[c]) : wrote[c][i] = i
    /\ \A w \in Workers :
          Busy(w) => Len(wrote[worker[w].req.conn]) = worker[w].req.seq - 1

\* Two requests of one connection have been answered, in order.
C2_Witness == \E c \in Conns : wrote[c] = <<1, 2>>

C4_UnknownFunction ==
    \A w \in Workers :
        ( /\ worker[w].pc = "write"
          /\ ~worker[w].raced
          /\ function[ReqFunction(w)] = Nil
          /\ handlers[ReqFunction(w)] = Nil )
        => /\ worker[w].invoked = NoCall
           /\ bank = worker[w].bank0
           /\ worker[w].response =
                 [tid |-> worker[w].req.frame.tid,
                  unit |-> worker[w].req.frame.unit,
                  function |-> ReqFunction(w) + 128,
                  data |-> <<1>>]

\* handle has returned for a request with function code 99 and empty tables.
C4_Witness ==
    \E w \in Workers :
        /\ worker[w].pc = "write"
        /\ ~worker[w].raced
        /\ ReqFunction(w) = 99
        /\ function[99] = Nil
        /\ handlers[99] = Nil

\* C5 (handler precedence): with no registration racing the dispatch, a code
\* that has both a native and a context-aware handler is dispatched to the
\* native one, and a context-aware handler is invoked only for a code with no
\* native handler.
C5_HandlerPrecedence ==
    \A w \in Workers :
        (worker[w].pc \in {"run", "write"} /\ ~worker[w].raced) =>
            /\ (function[ReqFunction(w)] # Nil /\ handlers[ReqFunction(w)] # Nil)
                  => worker[w].invoked = [kind |-> "native", h |-> function[ReqFunction(w)]]
            /\ worker[w].invoked.kind = "ctx"
                  => /\ function[ReqFunction(w)] = Nil
                     /\ worker[w].invoked.h = handlers[ReqFunction(w)]

\* A handler runs for a code that has both kinds of handler registered.
C5_Witness ==
    \E w \in Workers :
        /\ worker[w].pc = "run"
        /\ ~worker[w].raced
        /\ function[ReqFunction(w)] # Nil
        /\ handlers[ReqFunction(w)] # Nil

\* The handler of the latest registration for the worker's function code.
LatestRegistered(w) ==
    IF lastKind[ReqFunction(w)] = "native"
    THEN [kind |-> "native", h |-> lastNative[ReqFunction(w)]]
    ELSE [kind |-> "ctx", h |-> lastCtx[ReqFunction(w)]]

\* C6 as stated (registration replaces): with no registration racing the
\* dispatch, a request is dispatched to the handler most recently registered
\* for its code, whichever variant that registration was.
C6_LatestRegistrationWins ==
    \A w \in Workers :
        ( /\ worker[w].pc \in {"run", "write"}
          /\ ~worker[w].raced
          /\ lastKind[ReqFunction(w)] # "none"
          /\ LatestRegistered(w).h # Nil )
        => worker[w].invoked = LatestRegistered(w)

\* C6 as amended: a registration replaces the handler of its own variant only.
\* A request is dispatched to the native handler most recently registered for
\* its code (the constructor's default included) when that is not nil,
\* otherwise to the context-aware handler most recently registered for it,
\* otherwise to none.
C6_LatestOfEachVariant ==
    \A w \in Workers :
        (worker[w].pc \in {"run", "write"} /\ ~worker[w].raced) =>
            worker[w].invoked =
                IF lastNative[ReqFunction(w)] # Nil
                THEN [kind |-> "native", h |-> lastNative[ReqFunction(w)]]
                ELSE IF lastCtx[ReqFunction(w)] # Nil
                THEN [kind |-> "ctx", h |-> lastCtx[ReqFunction(w)]]
                ELSE NoCall

\* The latest registration for the code was a context-aware handler, and the
\* request is dispatched to the native handler registered before it.
C6_Witness ==
    \E w \in Workers :
        /\ worker[w].pc = "run"
        /\ ~worker[w].raced
        /\ lastKind[ReqFunction(w)] = "ctx"
        /\ lastCtx[ReqFunction(w)] # Nil
        /\ worker[w].invoked.kind = "native"

\* C7 (exception encoding): when handle returns after a handler was invoked,
\* the response is an exception frame (function code | 0x80, exactly one
\* payload byte, the exception's code) if and only if the handler returned a
\* pointer other than &Success; with &Success it is the request's envelope
\* carrying the handler's data.
C7_ExceptionEncoding ==
    \A w \in Workers :
        (worker[w].pc = "write" /\ worker[w].invoked.kind # "none") =>
            /\ ( /\ worker[w].response.function = ReqFunction(w) + 128
                 /\ worker[w].response.data = <<ExcCode(worker[w].exception)>> )
               <=> worker[w].exception # "Success"
            /\ worker[w].exception = "Success"
                  => worker[w].response =
                        [worker[w].req.frame EXCEPT !.data = worker[w].data]

\* A handler returned data together with IllegalDataAddress, and the response
\* carries only the exception's code.
C7_Witness ==
    \E w \in Workers :
        /\ worker[w].pc = "write"
        /\ worker[w].invoked.kind # "none"
        /\ worker[w].exception = "IllegalDataAddress"
        /\ worker[w].data = <<10, 20>>
        /\ worker[w].response.data = <<2>>

\* C8 (handler fault isolation): a fault in a handler invocation (the
\* handler panics, or returns a nil exception pointer that handle then
\* dereferences) does not terminate the worker.
C8_WorkerSurvivesFault ==
    \A w \in Workers :
        worker[w].fault \in {"handler", "nilexception"} => worker[w].pc # "panicked"

\* C9 (registration synchronized with dispatch): no registration falls
\* between handle's presence check and its call, so at the call the table
\* entry is the one the check saw.
C9_CheckAndCallSeeSameEntry ==
    \A w \in Workers :
        /\ worker[w].pc = "callNative" => function[ReqFunction(w)] = worker[w].entry
        /\ worker[w].pc = "callCtx" => handlers[ReqFunction(w)] = worker[w].entry

\* C10 (decode error): the packet that failed to decode was never submitted
\* and never answered, and the read loop has returned with the connection
\* closed.
C10_DecodeErrorClosesConnection ==
    \A c \in Conns :
        conn[c].rejected # 0 =>
            /\ conn[c].pc = "closed"
            /\ ~conn[c].open
            /\ conn[c].frame = NoFrame
            /\ conn[c].nsub = conn[c].rejected - 1
            /\ \A i \in 1..Len(wrote[c]) : wrote[c][i] # conn[c].rejected
            /\ \A w \in Workers :
                  ~(worker[w].req.conn = c /\ worker[w].req.seq = conn[c].rejected)

\* A connection's second packet failed to decode after its first request was
\* answered.
C10_Witness ==
    \E c \in Conns : conn[c].rejected = 2 /\ wrote[c] = <<1>>


\* C11 (connection failure isolation): the step in which a read loop returns
\* on a read error, end-of-stream or decode error leaves the worker, the
\* listeners with their accept loops, and every other connection as they
\* were; and a closed connection never keeps another connection's submission
\* from being taken by the idle worker.
C11_ConnectionFailureIsolated ==
    /\ [][\A c \in Conns :
            (conn[c].pc = "read" /\ conn'[c].pc = "closed") =>
                /\ worker' = worker
                /\ listeners' = listeners
                /\ wrote' = wrote
                /\ \A d \in Conns \ {c} : conn'[d] = conn[d]]_vars
    /\ [](\A c \in Conns, d \in Conns, w \in Workers :
            ( /\ conn[c].pc = "closed"
              /\ conn[d].pc = "send"
              /\ worker[w].pc = "recv" ) => ENABLED Submit(d, w))

\* One connection ended on a decode error, and after that the worker holds a
\* request of the other connection, which is still open.
C11_Witness ==
    \E c \in Conns, w \in Workers :
        /\ conn[c].rejected # 0
        /\ Busy(w)
        /\ worker[w].req.conn # c
        /\ conn[worker[w].req.conn].open
        /\ \A l \in Listeners : listeners[l] = "accepting"

\* C12 (handshake gate): a connection of the TLS listener whose handshake has
\* not succeeded has read nothing and submitted nothing, and no worker holds a
\* request of it; after a failed handshake its goroutine has returned and the
\* connection is closed.
C12_HandshakeGate ==
    \A c \in Conns :
        (conn[c].listener = "tls" /\ conn[c].hs # "ok") =>
            /\ conn[c].nread = 0
            /\ conn[c].nsub = 0
            /\ wrote[c] = <<>>
            /\ conn[c].pc \in {"handshake", "closed"}
            /\ \A w \in Workers : worker[w].req.conn # c
            /\ conn[c].hs = "failed" => (conn[c].pc = "closed" /\ ~conn[c].open)

\* A TLS connection's handshake failed while the plaintext connection is
\* being served.
C12_Witness ==
    \E c \in Conns, w \in Workers :
        /\ conn[c].listener = "tls"
        /\ conn[c].hs = "failed"
        /\ Busy(w)

\* The value of the role extension of a certificate, Nil if it has none.
RoleOf(cert) ==
    IF \E j \in 1..Len(cert.exts) : cert.exts[j].id = "role"
    THEN cert.exts[CHOOSE j \in 1..Len(cert.exts) : cert.exts[j].id = "role"].value
    ELSE Nil

\* The certificate the peer of a handshaken connection authenticated with.
Leaf(c) == conn[c].chain[1]

\* C13 (role propagation): every request context of a TLS connection whose
\* peer certificate carries the role extension exposes that certificate's
\* role; every request context of a TLS connection whose peer certificate
\* lacks it, and of a plaintext connection, exposes no role.
C13_RolePropagation ==
    \A w \in Workers :
        Busy(w) =>
            worker[w].req.ctx.role =
                IF conn[worker[w].req.conn].listener = "tls"
                THEN RoleOf(Leaf(worker[w].req.conn))
                ELSE Nil

\* C14 (identity propagation): every request context of a connection that
\* completed the handshake carries the common name of the peer certificate,
\* with or without a role extension.
C14_IdentityPropagation ==
    \A w \in Workers :
        (Busy(w) /\ conn[worker[w].req.conn].hs = "ok") =>
            worker[w].req.ctx.user = Leaf(worker[w].req.conn).cn

\* A step of Close: a listener or the port goes from open to closed, or the
\* first Close is recorded.
CloseStep ==
    \/ \E l \in Listeners : listeners[l] = "accepting" /\ listeners'[l] = "closed"
    \/ ports = "open" /\ ports' = "closed"
    \/ ~shut /\ shut'

\* C15 (graceful shutdown): Close closes every listener and port registered
\* with the server and touches no connection, nor the worker; the accept loop
\* of a closed listener accepts nothing more and returns; a connection is
\* accepted only from a listener that is open.
C15_GracefulShutdown ==
    /\ [][CloseStep =>
            /\ \A l \in Listeners :
                  listeners'[l] = IF listeners[l] = "accepting"
                                  THEN "closed" ELSE listeners[l]
            /\ ports' = IF ports = "open" THEN "closed" ELSE ports
            /\ conn' = conn
            /\ worker' = worker
            /\ wrote' = wrote]_vars
    /\ [][\A l \in Listeners :
            listeners[l] \in {"closed", "returned"} =>
                listeners'[l] \in {"closed", "returned"}]_vars
    /\ [][\A c \in Conns :
            (conn[c].pc = "idle" /\ conn'[c].pc # "idle") =>
                listeners[conn'[c].listener] = "accepting"]_vars

\* After Close both accept loops have returned and the port is closed, while
\* the worker holds a request of a connection that is still open.
C15_Witness ==
    \E w \in Workers :
        /\ shut
        /\ \A l \in Listeners : listeners[l] = "returned"
        /\ ports = "closed"
        /\ Busy(w)
        /\ conn[worker[w].req.conn].open

\* The requests of connection c that workers hold.
Holding(c) == {w \in Workers : Busy(w) /\ worker[w].req.conn = c}

\* C16 (request binding): every request the worker dequeued is either still
\* being handled or has had its one response written to the connection it was
\* read from.
C16_ExactlyOneResponse ==
    \A c \in Conns :
        conn[c].nsub =
            Cardinality(Holding(c)) + Len(wrote[c]) - (IF c \in lost THEN 1 ELSE 0)

\* C17 (no starvation): as long as no handler invocation has failed to
\* return, a request a read loop is trying to submit still has a worker that
\* will dequeue it.
C17_SubmissionHasWorker ==
    (\A w \in Workers : worker[w].fault # "handler") =>
        \A c \in Conns : conn[c].pc = "send" => Alive

\* The requests of connection c that are decoded and not yet dequeued.
Waiting(c) ==
    conn[c].nread - (IF conn[c].rejected # 0 THEN 1 ELSE 0) - conn[c].nsub

\* C18 (backpressure bound): each connection has at most one request decoded
\* and not yet dequeued, and has one exactly when its read loop is blocked on
\* the submission, with the connection open; so the waiting requests are at
\* most as many as the open connections; and at most one request is being
\* handled.
C18_BackpressureBound ==
    /\ \A c \in Conns :
          /\ Waiting(c) \in {0, 1}
          /\ Waiting(c) = 1 <=> conn[c].pc = "send"
          /\ conn[c].pc = "send" => conn[c].open
    /\ Cardinality({c \in Conns : conn[c].pc = "send"})
          <= Cardinality({c \in Conns : conn[c].open})
    /\ Cardinality({w \in Workers : Busy(w)}) <= 1

\* Both connections are blocked on their submissions while the worker handles
\* a request.
C18_Witness ==
    /\ \A c \in Conns : conn[c].pc = "send"
    /\ \E w \in Workers : InHandle(w)

\* C19 (no write after close): no response is written to a connection its
\* read loop has closed, and no read loop has returned while a worker holds a
\* request it submitted.
C19_NoWriteAfterClose ==
    /\ lost = {}
    /\ \A w \in Workers : Busy(w) => conn[worker[w].req.conn].open

\* C20 (role source): the identity and role of a request context are those of
\* one certificate of the peer's chain, and of the peer's own (first)
\* certificate when that carries the role extension.
C20_RoleFromLeaf ==
    \A w \in Workers :
        (Busy(w) /\ worker[w].req.ctx.role # Nil) =>
            LET chain == conn[worker[w].req.conn].chain
                ctx == worker[w].req.ctx IN
            /\ \E i \in 1..Len(chain) :
                  chain[i].cn = ctx.user /\ RoleOf(chain[i]) = ctx.role
            /\ RoleOf(chain[1]) # Nil =>
                  (ctx.user = chain[1].cn /\ ctx.role = RoleOf(chain[1]))

====
